---- MODULE Spec2Model ----
(***************************************************************************)
(* A model of scripts/latent.py of BioBombe: the latentModel class (weight *)
(* matrix loader, distribution extractor, gene identifier translator, GSEA *)
(* aggregator), the pipeline driver run_gsea_pipeline_command and the      *)
(* overrepresentation test run_overrepresentation.                         *)
(*                                                                         *)
(* Each component has its own specification over the shared variables:     *)
(*   SpecORA        run_overrepresentation                                 *)
(*   SpecLoad       latentModel.__init__ with an algorithm filter          *)
(*   SpecHW         latentModel.get_high_weight_genes                      *)
(*   SpecTranslate  latentModel.translate_gene_ids                         *)
(*   SpecGSEA       run_gsea_pipeline_command with the loops of            *)
(*                  latentModel.get_gsea_compressed_matrix                 *)
(*                                                                         *)
(*   SpecModel      the distribution methods and an index assignment on    *)
(*                  one latentModel, in any order                          *)
(*                                                                         *)
(* and a model of the gene-name cells of the notebook                      *)
(* 8.gtex-interpret/scripts/nbconverted/1B.download-hematopoietic-data.py: *)
(*   SpecSynonyms   symbol_to_entrez with the synonyms merged in           *)
(***************************************************************************)
EXTENDS Integers, Sequences, FiniteSets

(***************************************************************************)
(* Generic helpers.                                                        *)
(***************************************************************************)
Range(s) == {s[i] : i \in DOMAIN s}

RECURSIVE SetToSeq(_)
SetToSeq(S) ==
  IF S = {} THEN <<>>
  ELSE LET x == CHOOSE y \in S : TRUE IN <<x>> \o SetToSeq(S \ {x})

RECURSIVE Binomial(_, _)
Binomial(n, k) ==
  IF k < 0 \/ k > n THEN 0
  ELSE IF k = 0 THEN 1
  ELSE (Binomial(n - 1, k - 1) * n) \div k

RECURSIVE SumOver(_, _)
SumOver(f, S) ==
  IF S = {} THEN 0
  ELSE LET x == CHOOSE y \in S : TRUE IN f[x] + SumOver(f, S \ {x})

Max(a, b) == IF a >= b THEN a ELSE b
Min(a, b) == IF a <= b THEN a ELSE b

(***************************************************************************)
(* Bounds.                                                                 *)
(***************************************************************************)
\* run_overrepresentation: sizes of the candidate list and of a gene set,
\* calls made with the same argument objects
MaxCandidates == 3
MaxSetSize == 3
MaxOraCalls == 2
\* constructor: length of a column name and of the filter token
MaxNameLen == 2
\* get_high_weight_genes: genes in the weight matrix
MaxRowsHW == 13
\* translate_gene_ids: rows of the gene dictionary, calls that feed a result
\* back
MaxDictRows == 2
MaxChain == 4
MaxZ == 2
NumSeeds == 2
MaxSynonyms == 2

Genes == {"A", "B", "C", "D", "E"}
GeneOrder == <<"A", "B", "C", "D", "E">>
GeneSetNames == <<"s1", "s2">>

VARIABLES
  \* run_overrepresentation: the caller's argument objects, the tables handed
  \* to the exact test, the returned frame (or the raised error)
  gene_list, background_genes, gene_set_dict,
  fisher_calls, result_df, ora_error, ora_calls

VARIABLES
  \* the weight file on disk and the latentModel object's attributes
  file, lm_pc, w_df, z_dim, algorithm_name,
  is_gene_dictionary_loaded, gene_dictionary_df,
  pos_high_w_df, neg_high_w_df, high_weight_std_cutoff,
  pos_w_df, neg_w_df, sqr_w_df,
  \* the names of the attributes a method has set so far
  attrs

VARIABLES
  \* the gene dictionary each commit hash serves, the hashes fetched so far,
  \* and the translate_gene_ids calls: the last call's arguments and outcome,
  \* and the chain of calls that fed a result back with the namespaces swapped
  remote, dict_loads, tr_args, tr_ret, tr_origin, tr_history

VARIABLES
  \* run_gsea_pipeline_command: its arguments, the weight file of each seed,
  \* the seed being processed, the position in the function, the frames
  \* collected per seed and the written results file
  pipe_args, weight_matrices, seed, pipe_pc, gsea_results_list, out_file

VARIABLES
  \* get_gsea_compressed_matrix: its arguments, the position in its loops, its
  \* local variables (bound holds the names assigned so far), the frames it
  \* collected, the invocations of _get_gsea_results it made, and the
  \* exception it raised with the combination that raised it
  gsea_args, gsea_pc, alg_i, current_z, distrib_i,
  use_df, use_pos_df, use_neg_df, bound,
  current_z_list, gsea_calls, gsea_error, failed_unit

VARIABLES
  \* the gene-name notebook (1B.download-hematopoietic-data.py): the curated
  \* gene table the URL serves, the position in the notebook, and its
  \* variables gene_df, symbol_to_entrez, gene_with_syn_df, synonym_to_entrez
  genes_tsv, nb_pc, gene_df, symbol_to_entrez, gene_with_syn_df, synonym_to_entrez

oraVars == <<gene_list, background_genes, gene_set_dict,
             fisher_calls, result_df, ora_error, ora_calls>>
lmVars == <<file, lm_pc, w_df, z_dim, algorithm_name,
            is_gene_dictionary_loaded, gene_dictionary_df,
            pos_high_w_df, neg_high_w_df, high_weight_std_cutoff,
            pos_w_df, neg_w_df, sqr_w_df, attrs>>
\* what the distribution methods set
distVars == <<pos_high_w_df, neg_high_w_df, high_weight_std_cutoff,
              pos_w_df, neg_w_df, sqr_w_df, attrs>>
trVars == <<remote, dict_loads, tr_args, tr_ret, tr_origin, tr_history>>

pipeVars == <<pipe_args, weight_matrices, seed, pipe_pc, gsea_results_list, out_file>>
gseaVars == <<gsea_args, gsea_pc, alg_i, current_z, distrib_i,
              use_df, use_pos_df, use_neg_df, bound,
              current_z_list, gsea_calls, gsea_error, failed_unit>>

synVars == <<genes_tsv, nb_pc, gene_df, symbol_to_entrez, gene_with_syn_df,
             synonym_to_entrez>>

vars == <<oraVars, lmVars, trVars, pipeVars, gseaVars, synVars>>

(***************************************************************************)
(* Data frames.  A frame is [index, columns, data] with data[c][r] the     *)
(* cell of column c and row r.  Cells are tagged pairs, so that cells of   *)
(* different kinds compare unequal: a number, a missing value, a boolean,  *)
(* a row label (integer or string form of a gene id, or a gene symbol).    *)
(* Names are sequences of characters.                                      *)
(***************************************************************************)
Num(v) == <<"num", v>>
NaN == <<"nan", 0>>
Bool(b) == <<"bool", IF b THEN 1 ELSE 0>>
IntId(k) == <<"int", k>>
StrId(k) == <<"str", k>>
Sym(k) == <<"sym", k>>
Name(s) == <<"name", s>>

IsNum(c) == c[1] = "num"
IsTrue(c) == c = Bool(TRUE)
IsNaN(c) == c = NaN

EmptyFrame == [index |-> <<>>, columns |-> <<>>, data |-> <<>>]
NoneStr == <<"None">>
NoCutoff == <<0, 0>>

\* The attributes no method has set yet hold EmptyFrame and are not in attrs.
DistUnset ==
  /\ pos_high_w_df = EmptyFrame
  /\ neg_high_w_df = EmptyFrame
  /\ high_weight_std_cutoff = NoCutoff
  /\ pos_w_df = EmptyFrame
  /\ neg_w_df = EmptyFrame
  /\ sqr_w_df = EmptyFrame
  /\ attrs = {}

DictUnset ==
  /\ is_gene_dictionary_loaded = FALSE
  /\ gene_dictionary_df = <<>>

LmIdle ==
  /\ file = EmptyFrame
  /\ lm_pc = "idle"
  /\ w_df = EmptyFrame
  /\ z_dim = 0
  /\ algorithm_name = NoneStr
  /\ DictUnset
  /\ DistUnset

NoArgs == [gene_list |-> <<>>, translate_from |-> "", translate_to |-> "", hash |-> ""]
NoReturn == [status |-> "none", value |-> <<>>]

TrIdle ==
  /\ remote = <<>>
  /\ dict_loads = <<>>
  /\ tr_args = NoArgs
  /\ tr_ret = NoReturn
  /\ tr_origin = <<>>
  /\ tr_history = <<>>

NoSeries == [index |-> <<>>, name |-> <<>>, values |-> <<>>]
NoUnit == [algorithm |-> <<>>, current_z |-> 0, distribution |-> "", direction |-> ""]
NoGseaArgs ==
  [algorithms |-> <<>>, distrib_methods |-> <<>>, shuffled |-> FALSE, seed |-> 0,
   z_dim |-> 0, gene_sets |-> <<>>]
NoPipeArgs ==
  [z_dim |-> 0, shuffled_true |-> FALSE, algorithms |-> <<>>,
   distrib_methods |-> <<>>, translate |-> FALSE, gene_sets |-> <<>>]
NotWritten == [written |-> FALSE, rows |-> <<>>]

GseaIdle ==
  /\ gsea_args = NoGseaArgs
  /\ gsea_pc = "idle"
  /\ alg_i = 0
  /\ current_z = 0
  /\ distrib_i = 0
  /\ use_df = NoSeries
  /\ use_pos_df = NoSeries
  /\ use_neg_df = NoSeries
  /\ bound = {}
  /\ current_z_list = <<>>
  /\ gsea_calls = <<>>
  /\ gsea_error = "none"
  /\ failed_unit = NoUnit

PipeIdle ==
  /\ pipe_args = NoPipeArgs
  /\ weight_matrices = <<>>
  /\ seed = 0
  /\ pipe_pc = "idle"
  /\ gsea_results_list = <<>>
  /\ out_file = NotWritten

SynIdle ==
  /\ genes_tsv = <<>>
  /\ nb_pc = "idle"
  /\ gene_df = <<>>
  /\ symbol_to_entrez = <<>>
  /\ gene_with_syn_df = <<>>
  /\ synonym_to_entrez = <<>>

OraIdle ==
  /\ gene_list = <<>>
  /\ background_genes = <<>>
  /\ gene_set_dict = <<>>
  /\ fisher_calls = <<>>
  /\ result_df = <<>>
  /\ ora_error = "none"
  /\ ora_calls = 0

(***************************************************************************)
(* scipy.stats.fisher_exact on a 2x2 table of integers, two-sided.         *)
(* Rationals are pairs <<numerator, denominator>>; <<1, 0>> is inf and     *)
(* <<0, 0>> is nan.  A negative cell raises ValueError.                    *)
(***************************************************************************)
FisherRaises(t) == \E i \in 1..2 : \E j \in 1..2 : t[i][j] < 0

fisher_exact(t) ==
  LET a == t[1][1]
      b == t[1][2]
      c == t[2][1]
      d == t[2][2]
      n1 == a + b
      n2 == c + d
      k == a + c
      w(x) == Binomial(n1, x) * Binomial(n2, k - x)
      lo == Max(0, k - n2)
      hi == Min(k, n1)
      num == SumOver([x \in lo..hi |-> IF w(x) <= w(a) THEN w(x) ELSE 0], lo..hi)
  IN IF n1 = 0 \/ n2 = 0 \/ k = 0 \/ b + d = 0
     THEN [odds |-> <<0, 0>>, pval |-> <<1, 1>>]
     ELSE [odds |-> IF c > 0 /\ b > 0 THEN <<a * d, c * b>> ELSE <<1, 0>>,
           pval |-> <<num, Binomial(n1 + n2, k)>>]

(***************************************************************************)
(* run_overrepresentation (latent.py 495-534).                             *)
(***************************************************************************)
\* (mutant) the conventional table: no pseudocount in the last cell
ContingencyTable_NoPseudocount(gene_set, candidates, G) ==
  LET m == Cardinality(Range(gene_set) \cap Range(candidates))
      N == Cardinality(Range(candidates))
      P == Cardinality(Range(gene_set))
  IN <<<<m + 1, N - m + 1>>, <<P - m + 1, G - N - P + m>>>>

\* lines 519-526: the contingency table of one gene set
ContingencyTable(gene_set, candidates, G) ==
  LET m == Cardinality(Range(gene_set) \cap Range(candidates))
      N == Cardinality(Range(candidates))
      P == Cardinality(Range(gene_set))
  IN <<<<m + 1, N - m + 1>>, <<P - m + 1, G - N - P + m + 1>>>>

\* line 508: background_genes += gene_list extends the caller's list in place
ExtendedBackground(background, candidates) == background \o candidates

\* lines 515-529: the tables in loop order, up to and including the first
\* one the exact test rejects
RECURSIVE TablesUntilRaise(_, _, _)
TablesUntilRaise(dict, candidates, G) ==
  IF dict = <<>> THEN <<>>
  ELSE LET t == ContingencyTable(dict[1][2], candidates, G)
       IN IF FisherRaises(t) THEN <<t>>
          ELSE <<t>> \o TablesUntilRaise(Tail(dict), candidates, G)

\* lines 531-534: one row per appended (name, pvalue, odds)
ResultRows(dict, candidates, G) ==
  [i \in DOMAIN dict |->
     LET r == fisher_exact(ContingencyTable(dict[i][2], candidates, G))
     IN [name |-> dict[i][1], pval |-> r.pval, odds |-> r.odds]]

NoFrame == <<>>

run_overrepresentation ==
  /\ ora_calls < MaxOraCalls
  /\ LET bg == ExtendedBackground(background_genes, gene_list)
         G == Cardinality(Range(bg))
         visited == gene_set_dict
         tables == TablesUntilRaise(visited, gene_list, G)
         raised == tables # <<>> /\ FisherRaises(tables[Len(tables)])
     IN /\ background_genes' = bg
        /\ fisher_calls' = tables
        /\ IF raised
           THEN /\ ora_error' = "ValueError"
                /\ result_df' = NoFrame
           ELSE /\ ora_error' = "none"
                /\ result_df' = ResultRows(visited, gene_list, G)
  /\ ora_calls' = ora_calls + 1
  /\ UNCHANGED <<gene_list, gene_set_dict>>
  /\ UNCHANGED <<lmVars, trVars, pipeVars, gseaVars, synVars>>

\* The argument lists: a set of genes in some order, possibly with its first
\* element repeated at the end.
Prefix(n) == {GeneOrder[i] : i \in 1..n}
WithDup(s, dup) == IF dup /\ s # <<>> THEN s \o <<s[1]>> ELSE s

CandidateLists ==
  {WithDup(SetToSeq(Prefix(n)), dup) : n \in 0..MaxCandidates, dup \in BOOLEAN}
BackgroundLists == {SetToSeq(S) : S \in SUBSET Genes}
GeneSetLists ==
  {SetToSeq(S) : S \in {T \in SUBSET Genes : Cardinality(T) <= MaxSetSize}}
\* A second gene set is one of the last n genes, n <= MaxSetSize.
Suffix(n) == {GeneOrder[i] : i \in (Len(GeneOrder) - n + 1)..Len(GeneOrder)}
SecondSetLists == {SetToSeq(Suffix(n)) : n \in 0..Min(MaxSetSize, Len(GeneOrder))}
GeneSetDicts ==
  {<<>>}
  \cup {<<<<GeneSetNames[1], x>>>> : x \in GeneSetLists}
  \cup {<<<<GeneSetNames[1], x>>, <<GeneSetNames[2], y>>>> :
          x \in GeneSetLists, y \in SecondSetLists}

InitORA ==
  /\ SynIdle
  /\ PipeIdle
  /\ GseaIdle
  /\ LmIdle
  /\ TrIdle
  /\ gene_list \in CandidateLists
  /\ background_genes \in BackgroundLists
  /\ gene_set_dict \in GeneSetDicts
  /\ fisher_calls = <<>>
  /\ result_df = NoFrame
  /\ ora_error = "none"
  /\ ora_calls = 0

NextORA == run_overrepresentation

SpecORA == InitORA /\ [][NextORA]_vars

(***************************************************************************)
(* Claims about run_overrepresentation.                                    *)
(***************************************************************************)
\* The table of the claim, from the sets themselves.
ClaimedTable(set, candidates, universe) ==
  LET m == Cardinality(set \cap candidates)
      N == Cardinality(candidates)
      P == Cardinality(set)
      G == Cardinality(universe)
  IN <<<<m + 1, N - m + 1>>, <<P - m + 1, G - N - P + m + 1>>>>

\* C1: after every call, for every candidate list, gene-set collection and
\* background list, the exact test was handed, for each gene set, the table
\* [[m+1, N-m+1],[P-m+1, G-N-P+m+1]] (G the size of the deduplicated union of
\* background and candidates), and the call returned exactly one row per
\* gene-set name of the collection.
C1_TablePerSetAndRowPerName ==
  ora_calls > 0 =>
    /\ Len(fisher_calls) = Len(gene_set_dict)
    /\ \A i \in DOMAIN gene_set_dict :
         fisher_calls[i] = ClaimedTable(Range(gene_set_dict[i][2]), Range(gene_list),
                                        Range(background_genes) \cup Range(gene_list))
    /\ ora_error = "none"
    /\ Len(result_df) = Len(gene_set_dict)
    /\ \A i \in DOMAIN gene_set_dict : result_df[i].name = gene_set_dict[i][1]

\* The inputs of the worked example: candidates {A,B,C}, background
\* {A,B,C,D,E}, a gene set {A,B}.
C2_Example ==
  /\ Range(gene_list) = {"A", "B", "C"}
  /\ Range(background_genes) = {"A", "B", "C", "D", "E"}
  /\ Len(gene_set_dict) >= 1
  /\ Range(gene_set_dict[1][2]) = {"A", "B"}
  /\ ora_calls > 0

\* C2 as stated: in the worked example the table handed to the exact test
\* is [[3,2],[1,5]].
C2_TableAsStated == C2_Example => fisher_calls[1] = <<<<3, 2>>, <<1, 5>>>>

\* C2 amended: in the worked example (m=2, N=3, P=2, G=5) the table handed
\* to the exact test is [[3,2],[1,3]]: the last cell is G-N-P+m+1 = 3.
C2_TableOfExample == C2_Example => fisher_calls[1] = <<<<3, 2>>, <<1, 3>>>>

C2_Witness == C2_Example /\ ora_error = "none" /\ Len(result_df) >= 1

(***************************************************************************)
(* Strings: a name is a sequence of characters.                            *)
(***************************************************************************)
\* str.lower, one character
LowerChar(c) ==
  CASE c = "A" -> "a"
    [] c = "B" -> "b"
    [] OTHER -> c

\* str.lower
Lower(s) == [i \in DOMAIN s |-> LowerChar(s[i])]

\* pandas Series.str.contains(pat) for a pattern of letters: pat occurs in s
\* as it is written, letter case included
Contains(s, pat) ==
  \E i \in 0..(Len(s) - Len(pat)) : SubSeq(s, i + 1, i + Len(pat)) = pat

\* Python truth of the algorithm_name argument: None and '' are false
Truthy(s) == s # NoneStr /\ s # <<>>

RECURSIVE SelectSeq2(_, _)
\* the elements of s at the positions where mask is true, in order
SelectSeq2(s, mask) ==
  IF s = <<>> THEN <<>>
  ELSE (IF mask[1] THEN <<s[1]>> ELSE <<>>) \o SelectSeq2(Tail(s), Tail(mask))

\* weight_df.loc[:, mask]
SelectColumns(frame, mask) ==
  [index |-> frame.index,
   columns |-> SelectSeq2(frame.columns, mask),
   data |-> SelectSeq2(frame.data, mask)]

\* index.map(str): an integer label becomes its string form
MapStr(label) == IF label[1] = "int" THEN StrId(label[2]) ELSE label

(***************************************************************************)
(* latentModel.__init__ (latent.py 38-66).                                 *)
(***************************************************************************)
\* lines 53-54
ReadTable(f) ==
  [f EXCEPT !.index = [i \in DOMAIN f.index |-> MapStr(f.index[i])]]

\* line 65: use_cols = self.w_df.columns.str.contains(self.algorithm_name)
UseCols(columns, name) == [i \in DOMAIN columns |-> Contains(columns[i], name)]

latentModel_init(f, z, name) ==
  /\ z_dim' = z
  /\ is_gene_dictionary_loaded' = FALSE
  /\ IF Truthy(name)
     THEN /\ algorithm_name' = Lower(name)
          /\ w_df' = SelectColumns(ReadTable(f), UseCols(f.columns, Lower(name)))
     ELSE /\ algorithm_name' = NoneStr
          /\ w_df' = ReadTable(f)
  /\ lm_pc' = "ready"

(***************************************************************************)
(* SpecLoad: construction from a weight file with an algorithm filter.     *)
(***************************************************************************)
LoadChars == {"a", "A", "b"}
RECURSIVE StringsUpTo(_, _)
StringsUpTo(chars, n) ==
  IF n = 0 THEN {<<>>}
  ELSE LET shorter == StringsUpTo(chars, n - 1)
       IN shorter \cup {s \o <<c>> : s \in shorter, c \in chars}

LoadNames == StringsUpTo(LoadChars, MaxNameLen) \ {<<>>}
LoadFile(n1, n2) ==
  [index |-> <<IntId(1)>>, columns |-> <<n1, n2>>, data |-> <<<<Num(1)>>, <<Num(2)>>>>]
LoadFiles ==
  {LoadFile(p[1], p[2]) : p \in {q \in LoadNames \X LoadNames : q[1] # q[2]}}
AlgorithmNames == StringsUpTo(LoadChars, MaxNameLen) \cup {NoneStr}

InitLoad ==
  /\ SynIdle
  /\ PipeIdle
  /\ GseaIdle
  /\ OraIdle
  /\ TrIdle
  /\ file \in LoadFiles
  /\ lm_pc = "new"
  /\ w_df = EmptyFrame
  /\ z_dim = 0
  /\ algorithm_name = NoneStr
  /\ DictUnset
  /\ DistUnset

\* one construction from the file
Construct ==
  /\ lm_pc = "new"
  /\ \E name \in AlgorithmNames : latentModel_init(file, Len(file.columns), name)
  /\ UNCHANGED <<file, gene_dictionary_df>>
  /\ UNCHANGED <<distVars, oraVars, synVars, trVars, pipeVars, gseaVars>>

NextLoad == Construct

SpecLoad == InitLoad /\ [][NextLoad]_vars

\* C9: when an algorithm filter is given to the constructor, the retained
\* columns are exactly those whose name contains the filter token compared
\* case-insensitively, whatever the letter case of the column names and of
\* the token (algorithm_name holds the token in lower case).
C9_FilterIgnoresCase ==
  (lm_pc = "ready" /\ algorithm_name # NoneStr) =>
    w_df.columns =
      SelectSeq2(file.columns,
                 [i \in DOMAIN file.columns |->
                    Contains(Lower(file.columns[i]), algorithm_name)])

(***************************************************************************)
(* Column statistics.  Weights are integers; mean and standard deviation   *)
(* are the real numbers pandas computes (std with ddof = 1), and every     *)
(* comparison against mean +/- std_dev * std is decided exactly on         *)
(* integers by clearing denominators and squaring.  std_dev is a rational  *)
(* <<numerator, denominator>> with a positive denominator.                 *)
(***************************************************************************)
RECURSIVE SumUpTo(_, _)
SumUpTo(s, i) == IF i = 0 THEN 0 ELSE s[i] + SumUpTo(s, i - 1)
SumSeq(s) == SumUpTo(s, Len(s))

\* the numbers of a column, missing values skipped
ColValues(col) ==
  LET nums == SelectSeq(col, IsNum) IN [i \in DOMAIN nums |-> nums[i][2]]
ColN(col) == Len(ColValues(col))
ColSum(col) == SumSeq(ColValues(col))
ColSumSq(col) == LET v == ColValues(col) IN SumSeq([i \in DOMAIN v |-> v[i] * v[i]])
\* n*Q - S^2 = n*(n-1)*variance
ColDev(col) == ColN(col) * ColSumSq(col) - ColSum(col) * ColSum(col)

\* (mutant) a strict comparison
AtOrAbove_Strict(A, B, D, n) ==
  IF B >= 0 THEN A > 0 /\ A * A * n * (n - 1) > B * B * D
  ELSE A >= 0 \/ A * A * n * (n - 1) < B * B * D

\* A >= B * sqrt(D / (n*(n-1))) over the reals, for D >= 0 and n >= 2
AtOrAbove(A, B, D, n) ==
  IF B >= 0 THEN A >= 0 /\ A * A * n * (n - 1) >= B * B * D
  ELSE A >= 0 \/ A * A * n * (n - 1) <= B * B * D

\* line 127: v >= mean + std_dev * std for a column of n numbers with sum S
\* and n*Q - S^2 = D; false when the std is NaN (n < 2)
GeUpper(v, n, S, D, std_dev) ==
  n >= 2 /\ AtOrAbove((n * v - S) * std_dev[2], std_dev[1] * n, D, n)

\* line 128: v <= mean - std_dev * std; false when the std is NaN (n < 2)
LeLower(v, n, S, D, std_dev) ==
  n >= 2 /\ AtOrAbove((S - n * v) * std_dev[2], std_dev[1] * n, D, n)

\* lines 121-128: the two boolean frames
HighPositive(w, std_dev) ==
  [w EXCEPT !.data =
     [c \in DOMAIN w.data |->
        LET col == w.data[c]
            n == ColN(col)
            S == ColSum(col)
            D == ColDev(col)
        IN [r \in DOMAIN col |->
              Bool(IsNum(col[r]) /\ GeUpper(col[r][2], n, S, D, std_dev))]]]

HighNegative(w, std_dev) ==
  [w EXCEPT !.data =
     [c \in DOMAIN w.data |->
        LET col == w.data[c]
            n == ColN(col)
            S == ColSum(col)
            D == ColDev(col)
        IN [r \in DOMAIN col |->
              Bool(IsNum(col[r]) /\ LeLower(col[r][2], n, S, D, std_dev))]]]

(***************************************************************************)
(* latentModel._split_genes (latent.py 68-91): wide to long.               *)
(***************************************************************************)
RenameCols == <<<<"entrez_gene">>, <<"feature">>, <<"feature_weight">>>>

\* stack().reset_index(): one row (gene, feature, value) per cell that is
\* not missing, rows of the wide frame first
StackCells(w) ==
  LET nc == Len(w.columns)
      cell(i) == LET r == ((i - 1) \div nc) + 1
                     c == ((i - 1) % nc) + 1
                 IN <<w.index[r], Name(w.columns[c]), w.data[c][r]>>
      NotMissing(t) == ~IsNaN(t[3])
  IN SelectSeq([i \in 1..(Len(w.index) * nc) |-> cell(i)], NotMissing)

LongFrame(w) ==
  LET rows == StackCells(w)
  IN [index |-> [i \in DOMAIN rows |-> IntId(i - 1)],
      columns |-> RenameCols,
      data |-> <<[i \in DOMAIN rows |-> rows[i][1]],
                 [i \in DOMAIN rows |-> rows[i][2]],
                 [i \in DOMAIN rows |-> rows[i][3]]>>]

(***************************************************************************)
(* latentModel.get_high_weight_genes (latent.py 111-138).                  *)
(***************************************************************************)
get_high_weight_genes(std_dev, long_format) ==
  /\ lm_pc = "ready"
  /\ pos_high_w_df' = IF long_format THEN LongFrame(HighPositive(w_df, std_dev))
                      ELSE HighPositive(w_df, std_dev)
  /\ neg_high_w_df' = IF long_format THEN LongFrame(HighNegative(w_df, std_dev))
                      ELSE HighNegative(w_df, std_dev)
  /\ high_weight_std_cutoff' = std_dev
  /\ attrs' = attrs \cup {"pos_high_w_df", "neg_high_w_df", "high_weight_std_cutoff"}

(***************************************************************************)
(* SpecHW: get_high_weight_genes on a two-column weight matrix.  The first *)
(* column holds any multiset of HWValues over 1..MaxRowsHW genes, the      *)
(* second is constant.                                                     *)
(***************************************************************************)

HWValues == {-3, -1, 0, 1, 3}
HWOrder == <<-3, -1, 0, 1, 3>>
StdDevs == {<<5, 2>>, <<2, 1>>, <<1, 1>>, <<0, 1>>}

RECURSIVE Repeat(_, _)
Repeat(x, n) == IF n <= 0 THEN <<>> ELSE <<x>> \o Repeat(x, n - 1)

\* the column with count[v] copies of each value v, in increasing order
RECURSIVE Expand(_, _)
Expand(count, i) ==
  IF i > Len(HWOrder) THEN <<>>
  ELSE Repeat(Num(HWOrder[i]), count[HWOrder[i]]) \o Expand(count, i + 1)

HWCounts ==
  {count \in [HWValues -> 0..MaxRowsHW] :
     LET n == SumOver(count, HWValues) IN n >= 1 /\ n <= MaxRowsHW}

HWFrame(count) ==
  LET col == Expand(count, 1)
  IN [index |-> [i \in DOMAIN col |-> StrId(i)],
      columns |-> <<<<"h", "0">>, <<"h", "1">>>>,
      data |-> <<col, Repeat(Num(1), Len(col))>>]

InitHW ==
  /\ SynIdle
  /\ PipeIdle
  /\ GseaIdle
  /\ OraIdle
  /\ TrIdle
  /\ file = EmptyFrame
  /\ lm_pc = "ready"
  /\ w_df \in {HWFrame(count) : count \in HWCounts}
  /\ z_dim = 2
  /\ algorithm_name = NoneStr
  /\ DictUnset
  /\ DistUnset

\* one call on a fresh object
GetHighWeightGenes ==
  /\ "pos_high_w_df" \notin attrs
  /\ \E std_dev \in StdDevs : \E long_format \in BOOLEAN :
       get_high_weight_genes(std_dev, long_format)
  /\ UNCHANGED <<file, lm_pc, w_df, z_dim, algorithm_name,
                 is_gene_dictionary_loaded, gene_dictionary_df,
                 pos_w_df, neg_w_df, sqr_w_df>>
  /\ UNCHANGED <<oraVars, synVars, trVars, pipeVars, gseaVars>>

NextHW == GetHighWeightGenes

SpecHW == InitHW /\ [][NextHW]_vars

\* The flag of gene row r, feature column c in a high-weight frame, wide or
\* long.
HighFlag(frame, r, c) ==
  IF frame.columns = RenameCols
  THEN LET i == (r - 1) * Len(w_df.columns) + c
       IN /\ frame.data[1][i] = w_df.index[r]
          /\ frame.data[2][i] = Name(w_df.columns[c])
          /\ IsTrue(frame.data[3][i])
  ELSE IsTrue(frame.data[c][r])

Sigmas == 0..6

\* C10: for a column with mean 0 and standard deviation 1 and multiplier
\* 2.5, exactly the values >= 2.5 are flagged high_positive and exactly the
\* values <= -2.5 high_negative (so a value strictly between is flagged in
\* neither); in general, for a column of mean S/n and standard deviation
\* sigma, a value v is flagged high_positive exactly when
\* v >= S/n + multiplier*sigma and high_negative exactly when
\* v <= S/n - multiplier*sigma, both inclusive.
C10_HighWeightThresholds ==
  "pos_high_w_df" \in attrs =>
    \A c \in DOMAIN w_df.columns :
      LET col == w_df.data[c]
          n == ColN(col)
          S == ColSum(col)
          D == ColDev(col)
          kn == high_weight_std_cutoff[1]
          kd == high_weight_std_cutoff[2]
      IN \A sigma \in Sigmas :
           (n >= 2 /\ D = sigma * sigma * n * (n - 1)) =>
             \A r \in DOMAIN col :
               LET v == col[r][2]
               IN /\ HighFlag(pos_high_w_df, r, c) = (n * kd * v >= kd * S + kn * sigma * n)
                  /\ HighFlag(neg_high_w_df, r, c) = (n * kd * v <= kd * S - kn * sigma * n)
                  /\ (S = 0 /\ sigma = 1 /\ high_weight_std_cutoff = <<5, 2>>) =>
                       /\ HighFlag(pos_high_w_df, r, c) = (2 * v >= 5)
                       /\ HighFlag(neg_high_w_df, r, c) = (2 * v <= -5)

\* a column of mean 0 and standard deviation 1 under multiplier 2.5 with a
\* flagged value and an unflagged one
C10_Witness ==
  /\ "pos_high_w_df" \in attrs
  /\ high_weight_std_cutoff = <<5, 2>>
  /\ ColSum(w_df.data[1]) = 0
  /\ ColDev(w_df.data[1]) = ColN(w_df.data[1]) * (ColN(w_df.data[1]) - 1)
  /\ \E r1 \in DOMAIN w_df.index : \E r2 \in DOMAIN w_df.index :
       /\ HighFlag(pos_high_w_df, r1, 1)
       /\ ~HighFlag(pos_high_w_df, r2, 1)
       /\ ~HighFlag(neg_high_w_df, r2, 1)

(***************************************************************************)
(* The gene dictionary (latent.py 93-109) and translate_gene_ids           *)
(* (latent.py 166-196).  A dictionary is a sequence of rows                *)
(* [entrez_gene_id, symbol, gene_type].                                    *)
(***************************************************************************)
DefaultHash == "ad9631bb"
OtherHash == "721204"

\* lines 102-107: the table the hash serves, protein-coding rows only
IsProteinCoding(row) == row.gene_type = "protein-coding"
LoadGeneDict(hash) == SelectSeq(remote[hash], IsProteinCoding)

load_gene_dict(hash) ==
  /\ gene_dictionary_df' = LoadGeneDict(hash)
  /\ is_gene_dictionary_loaded' = TRUE
  /\ dict_loads' = Append(dict_loads, hash)

\* (mutant) line 185 with 'and' for 'or': rejects only if both are invalid
NamespacesValid_Either(translate_from, translate_to) ==
  translate_from \in {"entrez_gene_id", "symbol"}
    \/ translate_to \in {"entrez_gene_id", "symbol"}

\* lines 184-185
NamespacesValid(translate_from, translate_to) ==
  translate_from \in {"entrez_gene_id", "symbol"}
    /\ translate_to \in {"entrez_gene_id", "symbol"}

\* gene_dictionary_df.loc[:, name], one row
Column(row, name) == IF name = "entrez_gene_id" THEN row.entrez_gene_id ELSE row.symbol

\* (mutant) the two columns zipped the other way round
GeneMapper_Swapped(df, translate_from, translate_to) ==
  LET keys == {Column(df[i], translate_to) : i \in DOMAIN df}
      last(k) == CHOOSE i \in DOMAIN df :
                   /\ Column(df[i], translate_to) = k
                   /\ \A j \in DOMAIN df : Column(df[j], translate_to) = k => j <= i
  IN [k \in keys |-> Column(df[last(k)], translate_from)]

\* lines 192-193: dict(zip(from column, to column)); the last row of a
\* repeated key wins
GeneMapper(df, translate_from, translate_to) ==
  LET keys == {Column(df[i], translate_from) : i \in DOMAIN df}
      last(k) == CHOOSE i \in DOMAIN df :
                   /\ Column(df[i], translate_from) = k
                   /\ \A j \in DOMAIN df : Column(df[j], translate_from) = k => j <= i
  IN [k \in keys |-> Column(df[last(k)], translate_to)]

\* lines 195-196: Series.map(dict); a key the dict lacks gives a missing value
MapSeries(gene_list_arg, mapper) ==
  [i \in DOMAIN gene_list_arg |->
     IF gene_list_arg[i] \in DOMAIN mapper THEN mapper[gene_list_arg[i]] ELSE NaN]

\* (mutant) lines 189-190 without the test of the loaded flag
translate_gene_ids_AlwaysLoads(gene_list_arg, translate_from, translate_to, hash) ==
  /\ tr_args' = [gene_list |-> gene_list_arg, translate_from |-> translate_from,
                 translate_to |-> translate_to, hash |-> hash]
  /\ IF ~NamespacesValid(translate_from, translate_to)
     THEN /\ tr_ret' = [status |-> "ValueError", value |-> <<>>]
          /\ UNCHANGED <<is_gene_dictionary_loaded, gene_dictionary_df, dict_loads>>
     ELSE /\ gene_dictionary_df' = LoadGeneDict(hash)
          /\ is_gene_dictionary_loaded' = TRUE
          /\ dict_loads' = Append(dict_loads, hash)
          /\ tr_ret' = [status |-> "ok",
                        value |-> MapSeries(gene_list_arg,
                                            GeneMapper(LoadGeneDict(hash),
                                                       translate_from, translate_to))]

translate_gene_ids(gene_list_arg, translate_from, translate_to, hash) ==
  /\ tr_args' = [gene_list |-> gene_list_arg, translate_from |-> translate_from,
                 translate_to |-> translate_to, hash |-> hash]
  /\ IF ~NamespacesValid(translate_from, translate_to)
     THEN /\ tr_ret' = [status |-> "ValueError", value |-> <<>>]
          /\ UNCHANGED <<is_gene_dictionary_loaded, gene_dictionary_df, dict_loads>>
     ELSE LET df == IF is_gene_dictionary_loaded THEN gene_dictionary_df
                    ELSE LoadGeneDict(hash)
          IN /\ gene_dictionary_df' = df
             /\ is_gene_dictionary_loaded' = TRUE
             /\ dict_loads' = IF is_gene_dictionary_loaded THEN dict_loads
                              ELSE Append(dict_loads, hash)
             /\ tr_ret' = [status |-> "ok",
                           value |-> MapSeries(gene_list_arg,
                                               GeneMapper(df, translate_from, translate_to))]

(***************************************************************************)
(* SpecTranslate: calls of translate_gene_ids on one latentModel.  A call  *)
(* either takes a fresh gene list, or feeds the previous result back with  *)
(* the two namespaces swapped.                                             *)
(***************************************************************************)
DictIds == 1..2
DictRows ==
  {[entrez_gene_id |-> IntId(i), symbol |-> Sym(j), gene_type |-> "protein-coding"] :
     i \in DictIds, j \in DictIds}
  \cup {[entrez_gene_id |-> IntId(3), symbol |-> Sym(3), gene_type |-> "ncRNA"]}

RECURSIVE SeqsUpTo(_, _)
SeqsUpTo(S, n) ==
  IF n = 0 THEN {<<>>}
  ELSE LET shorter == SeqsUpTo(S, n - 1)
       IN shorter \cup {Append(t, x) : t \in shorter, x \in S}

Dictionaries == SeqsUpTo(DictRows, MaxDictRows)
OtherDictionary ==
  <<[entrez_gene_id |-> IntId(1), symbol |-> Sym(2), gene_type |-> "protein-coding"]>>

Namespaces == {"entrez_gene_id", "symbol", "ensembl_gene_id"}
Hashes == {DefaultHash, OtherHash}
FreshGeneLists ==
  {<<IntId(1)>>, <<IntId(2)>>, <<Sym(1)>>, <<Sym(2)>>, <<StrId(1)>>, <<IntId(1), IntId(2)>>}

InitTranslate ==
  /\ SynIdle
  /\ PipeIdle
  /\ GseaIdle
  /\ OraIdle
  /\ file = EmptyFrame
  /\ lm_pc = "ready"
  /\ w_df = EmptyFrame
  /\ z_dim = 0
  /\ algorithm_name = NoneStr
  /\ DictUnset
  /\ DistUnset
  /\ remote \in {[h \in Hashes |-> IF h = DefaultHash THEN d ELSE OtherDictionary] :
                   d \in Dictionaries}
  /\ dict_loads = <<>>
  /\ tr_args = NoArgs
  /\ tr_ret = NoReturn
  /\ tr_origin = <<>>
  /\ tr_history = <<>>

\* a call with a fresh gene list, made before a chain of calls grows
Translate ==
  /\ Len(tr_history) <= 1
  /\ \E g \in FreshGeneLists : \E f \in Namespaces : \E t \in Namespaces :
       \E hash \in Hashes :
         /\ translate_gene_ids(g, f, t, hash)
         /\ tr_origin' = g
  /\ tr_history' = IF tr_ret'.status = "ok" THEN <<tr_ret'.value>> ELSE <<>>
  /\ UNCHANGED <<file, lm_pc, w_df, z_dim, algorithm_name, remote>>
  /\ UNCHANGED <<distVars, oraVars, synVars, pipeVars, gseaVars>>

\* a call that translates the previous result back
TranslateBack ==
  /\ tr_ret.status = "ok"
  /\ tr_history # <<>>
  /\ Len(tr_history) < MaxChain
  /\ \E hash \in Hashes :
       translate_gene_ids(tr_ret.value, tr_args.translate_to, tr_args.translate_from, hash)
  /\ tr_history' = Append(tr_history, tr_ret'.value)
  /\ UNCHANGED <<file, lm_pc, w_df, z_dim, algorithm_name, remote, tr_origin>>
  /\ UNCHANGED <<distVars, oraVars, synVars, pipeVars, gseaVars>>

NextTranslate == Translate \/ TranslateBack

SpecTranslate == InitTranslate /\ [][NextTranslate]_vars

\* C7: a call whose translate_from or translate_to is not 'entrez_gene_id' or
\* 'symbol' fails with the error, returns no translation, and leaves the
\* loaded flag and the cached dictionary as they were (nothing is fetched).
C7_InvalidNamespaceRejected ==
  [][(tr_args'.translate_from \notin {"entrez_gene_id", "symbol"}
        \/ tr_args'.translate_to \notin {"entrez_gene_id", "symbol"}) =>
       /\ tr_ret' = [status |-> "ValueError", value |-> <<>>]
       /\ is_gene_dictionary_loaded' = is_gene_dictionary_loaded
       /\ gene_dictionary_df' = gene_dictionary_df
       /\ dict_loads' = dict_loads]_vars

\* a rejected call on a model that already holds a dictionary
C7_Witness ==
  /\ tr_ret.status = "ValueError"
  /\ tr_args.translate_from = "entrez_gene_id"
  /\ tr_args.translate_to = "ensembl_gene_id"
  /\ is_gene_dictionary_loaded
  /\ gene_dictionary_df # <<>>

\* the rows of the cached dictionary holding x in the given namespace
RowsWith(x, namespace) ==
  {i \in DOMAIN gene_dictionary_df : Column(gene_dictionary_df[i], namespace) = x}

\* the namespace of the genes the chain started from, and the other one
OriginNamespace ==
  IF Len(tr_history) % 2 = 0 THEN tr_args.translate_to ELSE tr_args.translate_from
OtherNamespace ==
  IF Len(tr_history) % 2 = 0 THEN tr_args.translate_from ELSE tr_args.translate_to

\* the chain started from genes that are all present in the dictionary
ChainOfPresentGenes ==
  /\ tr_origin # <<>>
  /\ Len(tr_history) >= 2
  /\ \A i \in DOMAIN tr_origin : RowsWith(tr_origin[i], OriginNamespace) # {}

\* C8 as stated: for every gene dictionary and every gene whose numeric id
\* and symbol are both in the dictionary, translating and translating back
\* returns the original gene, and a second round trip gives the same result
\* as the first.
C8_RoundTripAsStated ==
  ChainOfPresentGenes =>
    /\ tr_history[2] = tr_origin
    /\ Len(tr_history) >= 4 => tr_history[4] = tr_history[2]

\* each gene of the chain's origin is in exactly one row, and that row's
\* value in the other namespace is in no other row
ChainOfUniqueGenes ==
  /\ tr_origin # <<>>
  /\ Len(tr_history) >= 2
  /\ \A i \in DOMAIN tr_origin :
       LET rows == RowsWith(tr_origin[i], OriginNamespace)
       IN /\ Cardinality(rows) = 1
          /\ \A r \in rows :
               Cardinality(RowsWith(Column(gene_dictionary_df[r], OtherNamespace),
                                    OtherNamespace)) = 1

\* C8 amended: for every gene dictionary and every gene whose numeric id is
\* in exactly one row and whose symbol is in exactly one row, translating
\* and translating back returns the original gene, and a second round trip
\* gives the same result as the first.
C8_RoundTripOfUniqueGenes ==
  ChainOfUniqueGenes =>
    /\ tr_history[2] = tr_origin
    /\ Len(tr_history) >= 4 => tr_history[4] = tr_history[2]

\* two round trips from a gene of a two-row dictionary
C8_Witness ==
  /\ ChainOfUniqueGenes
  /\ Len(tr_history) = 4
  /\ Len(gene_dictionary_df) = 2
  /\ tr_history[4] = tr_origin

\* C12: over any sequence of translate_gene_ids calls on one model the
\* dictionary is fetched at most once, by the first call with valid
\* namespaces and with that call's hash; afterwards the cached dictionary
\* never changes, whatever hash a later call passes.
C12_DictionaryLoadedOnce ==
  /\ [](/\ Len(dict_loads) <= 1
        /\ is_gene_dictionary_loaded <=> (dict_loads # <<>>)
        /\ tr_ret.status = "ok" => is_gene_dictionary_loaded
        /\ is_gene_dictionary_loaded =>
             gene_dictionary_df = SelectSeq(remote[dict_loads[1]], IsProteinCoding))
  /\ [][/\ is_gene_dictionary_loaded =>
             /\ is_gene_dictionary_loaded'
             /\ gene_dictionary_df' = gene_dictionary_df
             /\ dict_loads' = dict_loads
        /\ (~is_gene_dictionary_loaded /\ tr_ret'.status = "ok") =>
             dict_loads' = <<tr_args'.hash>>]_vars

\* a later call that passed the default hash was answered from the
\* dictionary the first call fetched with the other hash
C12_Witness ==
  /\ Len(tr_history) >= 2
  /\ tr_ret.status = "ok"
  /\ tr_args.hash = DefaultHash
  /\ dict_loads = <<OtherHash>>
  /\ gene_dictionary_df = OtherDictionary
  /\ remote[DefaultHash] # OtherDictionary

(***************************************************************************)
(* latentModel.split_pos_neg_genes (latent.py 140-157) and                 *)
(* get_squared_distribution (latent.py 159-164).                           *)
(***************************************************************************)
\* lines 148-149: w_df[w_df > 0] and w_df[w_df < 0]; the other cells become
\* missing
PositiveOnly(w) ==
  [w EXCEPT !.data =
     [c \in DOMAIN w.data |->
        [r \in DOMAIN w.data[c] |->
           IF IsNum(w.data[c][r]) /\ w.data[c][r][2] > 0 THEN w.data[c][r] ELSE NaN]]]

NegativeOnly(w) ==
  [w EXCEPT !.data =
     [c \in DOMAIN w.data |->
        [r \in DOMAIN w.data[c] |->
           IF IsNum(w.data[c][r]) /\ w.data[c][r][2] < 0 THEN w.data[c][r] ELSE NaN]]]

split_pos_neg_genes(long_format) ==
  /\ lm_pc = "ready"
  /\ pos_w_df' = IF long_format THEN LongFrame(PositiveOnly(w_df)) ELSE PositiveOnly(w_df)
  /\ neg_w_df' = IF long_format THEN LongFrame(NegativeOnly(w_df)) ELSE NegativeOnly(w_df)
  /\ attrs' = attrs \cup {"pos_w_df", "neg_w_df"}

\* line 164: w_df ** 2
Squared(w) ==
  [w EXCEPT !.data =
     [c \in DOMAIN w.data |->
        [r \in DOMAIN w.data[c] |->
           IF IsNum(w.data[c][r]) THEN Num(w.data[c][r][2] * w.data[c][r][2]) ELSE NaN]]]

get_squared_distribution ==
  /\ lm_pc = "ready"
  /\ sqr_w_df' = Squared(w_df)
  /\ attrs' = attrs \cup {"sqr_w_df"}

(***************************************************************************)
(* latentModel._get_compressed_feature (latent.py 198-218).  A feature is  *)
(* a Series [index, name, values].                                         *)
(***************************************************************************)
\* .loc[:, subset_algs].iloc[:, current_z] raises IndexError when the mask
\* does not fit the columns or selects no more than current_z of them
FeatureRaises(weight_df, subset_algs, z) ==
  \/ Len(subset_algs) # Len(weight_df.columns)
  \/ z >= Len(SelectSeq2(weight_df.columns, subset_algs))

get_compressed_feature(weight_df, subset_algs, z) ==
  LET sel == SelectColumns(weight_df, subset_algs)
  IN [index |-> sel.index,
      name |-> sel.columns[z + 1],
      values |-> sel.data[z + 1]]

\* Series.dropna(): the values that are not missing
DropNa(series) ==
  LET NotMissing(c) == ~IsNaN(c) IN SelectSeq(series.values, NotMissing)

(***************************************************************************)
(* The enrichment engine self.run_gsea_prerank, which latent.py calls      *)
(* (line 243) and does not define: one result row per gene set that        *)
(* shares a gene with the genes that have a score.                         *)
(***************************************************************************)
ScoredGenes(gene_score_df) ==
  {gene_score_df.index[r] : r \in {q \in DOMAIN gene_score_df.index :
                                     ~IsNaN(gene_score_df.values[q])}}

run_gsea_prerank(gene_score_df, gene_sets) ==
  LET Overlaps(gs) == gs.genes \cap ScoredGenes(gene_score_df) # {}
      hits == SelectSeq(gene_sets, Overlaps)
  IN [i \in DOMAIN hits |-> [term |-> hits[i].term]]

(***************************************************************************)
(* latentModel._get_gsea_results (latent.py 220-262).                      *)
(***************************************************************************)
\* (mutant) current_z and full_z assigned to each other's column
get_gsea_results_SwappedZ(use, algorithm, current, full_z, distribution, shuffled, direction, seed_arg, gene_sets) ==
  LET results_df == run_gsea_prerank(use, gene_sets)
  IN [i \in DOMAIN results_df |->
        [term |-> results_df[i].term,
         distrib |-> distribution,
         algorithm |-> algorithm,
         current_z |-> full_z,
         full_z |-> current,
         shuffled |-> shuffled,
         direction |-> direction,
         seed |-> seed_arg]]

get_gsea_results(use, algorithm, current, full_z, distribution, shuffled, direction, seed_arg, gene_sets) ==
  LET results_df == run_gsea_prerank(use, gene_sets)
  IN [i \in DOMAIN results_df |->
        [term |-> results_df[i].term,
         distrib |-> distribution,
         algorithm |-> algorithm,
         current_z |-> current,
         full_z |-> full_z,
         shuffled |-> shuffled,
         direction |-> direction,
         seed |-> seed_arg]]

(***************************************************************************)
(* latentModel.get_gsea_compressed_matrix (latent.py 264-396): the entry,  *)
(* one iteration of the innermost loop, and the return.  An exception      *)
(* leaves the function and its caller run_gsea_pipeline_command, neither   *)
(* of which has a handler.                                                 *)
(***************************************************************************)
TwoSided == {"pos_neg", "pos_neg_high_weight"}

RECURSIVE Flatten(_)
Flatten(frames) ==
  IF frames = <<>> THEN <<>> ELSE Head(frames) \o Flatten(Tail(frames))

\* lines 285-299: the call and the first pass through the three loop headers
GseaEnter(algorithms, distrib_methods, shuffled, seed_arg, full_z, gene_sets) ==
  /\ gsea_args' = [algorithms |-> algorithms, distrib_methods |-> distrib_methods,
                   shuffled |-> shuffled, seed |-> seed_arg, z_dim |-> full_z,
                   gene_sets |-> gene_sets]
  /\ current_z_list' = <<>>
  /\ gsea_calls' = <<>>
  /\ use_df' = NoSeries
  /\ use_pos_df' = NoSeries
  /\ use_neg_df' = NoSeries
  /\ bound' = {}
  /\ gsea_error' = "none"
  /\ failed_unit' = NoUnit
  /\ alg_i' = 1
  /\ current_z' = 0
  /\ distrib_i' = 1
  /\ gsea_pc' = IF algorithms = <<>> \/ distrib_methods = <<>> \/ z_dim <= 0
                THEN "concat" ELSE "loop"

\* an exception raised in the combination (alg, current_z, distrib, direction)
GseaRaise(kind, alg, distrib, direction) ==
  /\ gsea_error' = kind
  /\ failed_unit' = [algorithm |-> alg, current_z |-> current_z,
                     distribution |-> distrib, direction |-> direction]
  /\ gsea_pc' = "raised"
  /\ pipe_pc' = "aborted"
  /\ UNCHANGED <<alg_i, current_z, distrib_i, use_df, use_pos_df, use_neg_df,
                 bound, current_z_list, gsea_calls>>

\* the loop headers after an iteration (lines 290, 296, 299)
GseaAdvance ==
  IF distrib_i < Len(gsea_args.distrib_methods)
  THEN /\ distrib_i' = distrib_i + 1
       /\ UNCHANGED <<alg_i, current_z, gsea_pc>>
  ELSE IF current_z + 1 < z_dim
  THEN /\ distrib_i' = 1
       /\ current_z' = current_z + 1
       /\ UNCHANGED <<alg_i, gsea_pc>>
  ELSE IF alg_i < Len(gsea_args.algorithms)
  THEN /\ distrib_i' = 1
       /\ current_z' = 0
       /\ alg_i' = alg_i + 1
       /\ UNCHANGED gsea_pc
  ELSE /\ gsea_pc' = "concat"
       /\ UNCHANGED <<alg_i, current_z, distrib_i>>

\* lines 300-394: the body of the innermost loop
GseaIterate ==
  /\ gsea_pc = "loop"
  /\ LET alg == gsea_args.algorithms[alg_i]
         distrib == gsea_args.distrib_methods[distrib_i]
         \* line 292
         subset_algs == UseCols(w_df.columns, alg)
         \* lines 304-343: the frames the features are taken from
         views == IF distrib = "full" THEN <<w_df>>
                  ELSE IF distrib = "full_squared" THEN <<sqr_w_df>>
                  ELSE IF distrib = "pos_neg" THEN <<pos_w_df, neg_w_df>>
                  ELSE IF distrib = "pos_neg_high_weight"
                       THEN <<pos_high_w_df, neg_high_w_df>>
                  ELSE <<>>
         raises == \E i \in DOMAIN views : FeatureRaises(views[i], subset_algs, current_z)
         feature(i) == get_compressed_feature(views[i], subset_algs, current_z)
         num_distrib == IF distrib \in TwoSided THEN 2 ELSE 1
         new_use_df == IF distrib \in {"full", "full_squared"} THEN feature(1) ELSE use_df
         new_use_pos_df == IF distrib \in TwoSided THEN feature(1) ELSE use_pos_df
         new_use_neg_df == IF distrib \in TwoSided THEN feature(2) ELSE use_neg_df
         new_bound == bound \cup (IF distrib \in {"full", "full_squared"} THEN {"use_df"}
                                  ELSE IF distrib \in TwoSided
                                       THEN {"use_pos_df", "use_neg_df"}
                                  ELSE {})
         \* lines 346, 362, 379: the invocations this iteration makes
         directions ==
           IF num_distrib = 1 THEN <<"both">>
           ELSE (IF Len(DropNa(new_use_pos_df)) # 0 THEN <<"positive">> ELSE <<>>)
                \o (IF Len(DropNa(new_use_neg_df)) # 0 THEN <<"negative">> ELSE <<>>)
         \* lines 349, 365, 382 all pass the local use_df
         result(d) == get_gsea_results(new_use_df, alg, current_z, gsea_args.z_dim,
                                       distrib, gsea_args.shuffled, d, gsea_args.seed,
                                       gsea_args.gene_sets)
         invocation(d) == [use_df |-> new_use_df, algorithm |-> alg,
                           current_z |-> current_z, distribution |-> distrib,
                           direction |-> d]
     IN IF raises
        THEN GseaRaise("IndexError", alg, distrib, "")
        ELSE IF directions # <<>> /\ "use_df" \notin new_bound
        THEN GseaRaise("UnboundLocalError", alg, distrib, directions[1])
        ELSE /\ use_df' = new_use_df
             /\ use_pos_df' = new_use_pos_df
             /\ use_neg_df' = new_use_neg_df
             /\ bound' = new_bound
             /\ current_z_list' = current_z_list
                                    \o [i \in DOMAIN directions |-> result(directions[i])]
             /\ gsea_calls' = gsea_calls
                                \o [i \in DOMAIN directions |-> invocation(directions[i])]
             /\ GseaAdvance
             /\ UNCHANGED <<gsea_error, failed_unit, pipe_pc>>
  /\ UNCHANGED gsea_args

\* line 396 and the caller's lines 466 and 432: the collected frames are
\* concatenated and appended, and the seed loop goes on
GseaReturn ==
  /\ gsea_pc = "concat"
  /\ IF current_z_list = <<>>
     THEN /\ gsea_error' = "ValueError"
          /\ gsea_pc' = "raised"
          /\ pipe_pc' = "aborted"
          /\ UNCHANGED <<gsea_results_list, seed>>
     ELSE /\ gsea_pc' = "returned"
          /\ gsea_results_list' = Append(gsea_results_list, Flatten(current_z_list))
          /\ IF seed < Len(weight_matrices)
             THEN /\ seed' = seed + 1
                  /\ pipe_pc' = "construct"
             ELSE /\ pipe_pc' = "write"
                  /\ UNCHANGED seed
          /\ UNCHANGED gsea_error
  /\ UNCHANGED <<gsea_args, alg_i, current_z, distrib_i, use_df, use_pos_df, use_neg_df,
                 bound, current_z_list, gsea_calls, failed_unit>>

(***************************************************************************)
(* run_gsea_pipeline_command (latent.py 399-474), one action per step.     *)
(***************************************************************************)
\* Step 1, lines 435-441: a new latentModel for the seed's file
PipeConstruct ==
  /\ pipe_pc = "construct"
  /\ file' = weight_matrices[seed]
  /\ latentModel_init(weight_matrices[seed], pipe_args.z_dim, NoneStr)
  /\ gene_dictionary_df' = <<>>
  /\ pos_high_w_df' = EmptyFrame
  /\ neg_high_w_df' = EmptyFrame
  /\ high_weight_std_cutoff' = NoCutoff
  /\ pos_w_df' = EmptyFrame
  /\ neg_w_df' = EmptyFrame
  /\ sqr_w_df' = EmptyFrame
  /\ attrs' = {}
  /\ pipe_pc' = "load_dict"
  /\ UNCHANGED <<pipe_args, weight_matrices, seed, gsea_results_list, out_file>>
  /\ UNCHANGED <<oraVars, synVars, trVars, gseaVars>>

\* Step 2, line 444
PipeLoadDict ==
  /\ pipe_pc = "load_dict"
  /\ load_gene_dict(DefaultHash)
  /\ pipe_pc' = "translate"
  /\ UNCHANGED <<file, lm_pc, w_df, z_dim, algorithm_name>>
  /\ UNCHANGED <<remote, tr_args, tr_ret, tr_origin, tr_history>>
  /\ UNCHANGED <<pipe_args, weight_matrices, seed, gsea_results_list, out_file>>
  /\ UNCHANGED <<distVars, oraVars, synVars, gseaVars>>

\* Step 3, lines 447-453
PipeTranslate ==
  /\ pipe_pc = "translate"
  /\ IF pipe_args.translate
     THEN /\ translate_gene_ids(w_df.index, "entrez_gene_id", "symbol", DefaultHash)
          /\ w_df' = [w_df EXCEPT !.index = tr_ret'.value]
     ELSE UNCHANGED <<w_df, tr_args, tr_ret, is_gene_dictionary_loaded,
                      gene_dictionary_df, dict_loads>>
  /\ pipe_pc' = "high"
  /\ UNCHANGED <<file, lm_pc, z_dim, algorithm_name>>
  /\ UNCHANGED <<remote, tr_origin, tr_history>>
  /\ UNCHANGED <<pipe_args, weight_matrices, seed, gsea_results_list, out_file>>
  /\ UNCHANGED <<distVars, oraVars, synVars, gseaVars>>

\* Step 4, line 456
PipeHigh ==
  /\ pipe_pc = "high"
  /\ get_high_weight_genes(<<5, 2>>, FALSE)
  /\ pipe_pc' = "split"
  /\ UNCHANGED <<file, lm_pc, w_df, z_dim, algorithm_name,
                 is_gene_dictionary_loaded, gene_dictionary_df,
                 pos_w_df, neg_w_df, sqr_w_df>>
  /\ UNCHANGED <<pipe_args, weight_matrices, seed, gsea_results_list, out_file>>
  /\ UNCHANGED <<oraVars, synVars, trVars, gseaVars>>

\* Step 4, line 457
PipeSplit ==
  /\ pipe_pc = "split"
  /\ split_pos_neg_genes(FALSE)
  /\ pipe_pc' = "square"
  /\ UNCHANGED <<file, lm_pc, w_df, z_dim, algorithm_name,
                 is_gene_dictionary_loaded, gene_dictionary_df,
                 pos_high_w_df, neg_high_w_df, high_weight_std_cutoff, sqr_w_df>>
  /\ UNCHANGED <<pipe_args, weight_matrices, seed, gsea_results_list, out_file>>
  /\ UNCHANGED <<oraVars, synVars, trVars, gseaVars>>

\* Step 4, line 458
PipeSquare ==
  /\ pipe_pc = "square"
  /\ get_squared_distribution
  /\ pipe_pc' = "gsea"
  /\ UNCHANGED <<file, lm_pc, w_df, z_dim, algorithm_name,
                 is_gene_dictionary_loaded, gene_dictionary_df,
                 pos_high_w_df, neg_high_w_df, high_weight_std_cutoff,
                 pos_w_df, neg_w_df>>
  /\ UNCHANGED <<pipe_args, weight_matrices, seed, gsea_results_list, out_file>>
  /\ UNCHANGED <<oraVars, synVars, trVars, gseaVars>>

\* lines 460-470: the call of get_gsea_compressed_matrix
PipeGsea ==
  /\ pipe_pc = "gsea"
  /\ gsea_pc \in {"idle", "returned"}
  /\ GseaEnter(pipe_args.algorithms, pipe_args.distrib_methods,
               pipe_args.shuffled_true, seed, pipe_args.z_dim, pipe_args.gene_sets)
  /\ UNCHANGED <<lmVars, oraVars, synVars, trVars, pipeVars>>

PipeGseaIterate ==
  /\ pipe_pc = "gsea"
  /\ GseaIterate
  /\ UNCHANGED <<pipe_args, weight_matrices, seed, gsea_results_list, out_file>>
  /\ UNCHANGED <<lmVars, oraVars, synVars, trVars>>

PipeGseaReturn ==
  /\ pipe_pc = "gsea"
  /\ GseaReturn
  /\ UNCHANGED <<pipe_args, weight_matrices, out_file>>
  /\ UNCHANGED <<lmVars, oraVars, synVars, trVars>>

\* lines 472-474
PipeWrite ==
  /\ pipe_pc = "write"
  /\ out_file' = [written |-> TRUE, rows |-> Flatten(gsea_results_list)]
  /\ pipe_pc' = "done"
  /\ UNCHANGED <<pipe_args, weight_matrices, seed, gsea_results_list>>
  /\ UNCHANGED <<lmVars, oraVars, synVars, trVars, gseaVars>>

(***************************************************************************)
(* SpecGSEA: run_gsea_pipeline_command over a directory with one weight    *)
(* file per seed.  A file has two genes and two feature columns; the file  *)
(* of an even seed holds the negated weights of the file of an odd seed.   *)
(***************************************************************************)
GseaWeights == {-1, 0, 1}
GseaColumns == {<<a, b>> : a \in GseaWeights, b \in GseaWeights}
Layouts == {<<<<"p", "0">>, <<"p", "1">>>>, <<<<"p", "0">>, <<"i", "0">>>>}
AlgorithmLists == {<<<<"p">>>>, <<<<"p">>, <<"i">>>>}
DistribLists ==
  {<<"full">>, <<"pos_neg">>, <<"pos_neg_high_weight">>,
   <<"full", "pos_neg">>, <<"pos_neg", "full">>,
   <<"full_squared", "pos_neg_high_weight">>,
   <<"full", "full_squared", "pos_neg", "pos_neg_high_weight">>}
GseaGeneSets ==
  <<[term |-> "s1", genes |-> {StrId(1)}], [term |-> "s2", genes |-> {Sym(2)}]>>
GseaDictionary ==
  <<[entrez_gene_id |-> IntId(1), symbol |-> Sym(1), gene_type |-> "protein-coding"],
    [entrez_gene_id |-> IntId(2), symbol |-> Sym(2), gene_type |-> "protein-coding"]>>

GseaFile(layout, c1, c2) ==
  [index |-> <<IntId(1), IntId(2)>>,
   columns |-> layout,
   data |-> <<[r \in 1..2 |-> Num(c1[r])], [r \in 1..2 |-> Num(c2[r])]>>]

Negated(w) ==
  [w EXCEPT !.data =
     [c \in DOMAIN w.data |-> [r \in DOMAIN w.data[c] |-> Num(0 - w.data[c][r][2])]]]

SeedFile(base, s) == IF s % 2 = 1 THEN base ELSE Negated(base)

InitGSEA ==
  /\ SynIdle
  /\ OraIdle
  /\ GseaIdle
  /\ file = EmptyFrame
  /\ lm_pc = "new"
  /\ w_df = EmptyFrame
  /\ z_dim = 0
  /\ algorithm_name = NoneStr
  /\ DictUnset
  /\ DistUnset
  /\ remote = [h \in Hashes |-> IF h = DefaultHash THEN GseaDictionary ELSE OtherDictionary]
  /\ dict_loads = <<>>
  /\ tr_args = NoArgs
  /\ tr_ret = NoReturn
  /\ tr_origin = <<>>
  /\ tr_history = <<>>
  /\ \E z \in 1..MaxZ : \E a \in AlgorithmLists : \E d \in DistribLists :
       \E t \in BOOLEAN :
         pipe_args = [z_dim |-> z, shuffled_true |-> FALSE, algorithms |-> a,
                      distrib_methods |-> d, translate |-> t,
                      gene_sets |-> GseaGeneSets]
  /\ \E layout \in Layouts : \E c1 \in GseaColumns : \E c2 \in GseaColumns :
       weight_matrices = [s \in 1..NumSeeds |-> SeedFile(GseaFile(layout, c1, c2), s)]
  /\ seed = 1
  /\ pipe_pc = "construct"
  /\ gsea_results_list = <<>>
  /\ out_file = NotWritten

NextGSEA ==
  \/ PipeConstruct
  \/ PipeLoadDict
  \/ PipeTranslate
  \/ PipeHigh
  \/ PipeSplit
  \/ PipeSquare
  \/ PipeGsea
  \/ PipeGseaIterate
  \/ PipeGseaReturn
  \/ PipeWrite

SpecGSEA == InitGSEA /\ [][NextGSEA]_vars

\* get_gsea_compressed_matrix is running or has just raised: its locals and
\* the object's frames are those its invocations were made from
InGseaCall == gsea_pc \in {"loop", "concat", "raised"}

\* the frame the combination's feature is to come from
ExpectedView(c) ==
  IF c.distribution = "full" THEN w_df
  ELSE IF c.distribution = "full_squared" THEN sqr_w_df
  ELSE IF c.distribution = "pos_neg"
       THEN (IF c.direction = "positive" THEN pos_w_df ELSE neg_w_df)
  ELSE (IF c.direction = "positive" THEN pos_high_w_df ELSE neg_high_w_df)

ExpectedFeature(c) ==
  get_compressed_feature(ExpectedView(c), UseCols(w_df.columns, c.algorithm), c.current_z)

\* C3: every invocation of the enrichment step receives the feature column
\* of its own combination: the full, squared, positive or negative view of
\* column current_z of the algorithm, never a vector left over from an
\* earlier iteration.
C3_InvocationGetsItsView ==
  InGseaCall =>
    \A k \in DOMAIN gsea_calls : gsea_calls[k].use_df = ExpectedFeature(gsea_calls[k])

\* the side of a two-sided combination has a gene: a weight that is not
\* missing (split views) or a flag that is set (high-weight views)
SideHasGenes(c) ==
  LET col == ExpectedFeature(c).values
  IN IF c.distribution = "pos_neg"
     THEN \E r \in DOMAIN col : ~IsNaN(col[r])
     ELSE \E r \in DOMAIN col : IsTrue(col[r])

\* C4: a combination whose gene list is empty (no positive or no negative
\* weight, or no gene past the high-weight threshold) is skipped without an
\* error: no invocation is made for it and none fails on it.
C4_EmptySideSkipped ==
  InGseaCall =>
    /\ \A k \in DOMAIN gsea_calls :
         gsea_calls[k].distribution \in TwoSided => SideHasGenes(gsea_calls[k])
    /\ (failed_unit.distribution \in TwoSided /\ failed_unit.direction # "")
         => SideHasGenes(failed_unit)

\* C5: a combination that fails does not abort the batch: the run goes on
\* to its siblings and writes the results of the combinations that
\* succeeded.
C5_UnitFailureIsolated ==
  failed_unit # NoUnit => pipe_pc # "aborted"

\* the rows of the k-th collected frame carry the combination of the k-th
\* invocation
RowsCarry(rows, c) ==
  \A i \in DOMAIN rows :
    /\ rows[i].algorithm = c.algorithm
    /\ rows[i].current_z = c.current_z
    /\ rows[i].full_z = pipe_args.z_dim
    /\ rows[i].distrib = c.distribution
    /\ rows[i].direction = c.direction
    /\ rows[i].shuffled = pipe_args.shuffled_true
    /\ rows[i].seed = seed

DirectionFits(row) ==
  /\ row.distrib \in {"full", "full_squared"} => row.direction = "both"
  /\ row.distrib \in TwoSided => row.direction \in {"positive", "negative"}

\* C6: every result row carries algorithm, current dimension, full
\* dimensionality, distribution type, direction, shuffled flag and seed,
\* equal to the loop combination that produced it; direction is 'both' for
\* the full and squared types and 'positive' or 'negative' for the split and
\* high-weight types.
C6_ProvenanceOnEveryRow ==
  /\ InGseaCall =>
       /\ Len(current_z_list) = Len(gsea_calls)
       /\ \A k \in DOMAIN current_z_list : RowsCarry(current_z_list[k], gsea_calls[k])
  /\ \A i \in DOMAIN out_file.rows :
       LET row == out_file.rows[i]
       IN /\ DirectionFits(row)
          /\ row.algorithm \in Range(pipe_args.algorithms)
          /\ row.current_z \in 0..(pipe_args.z_dim - 1)
          /\ row.full_z = pipe_args.z_dim
          /\ row.distrib \in Range(pipe_args.distrib_methods)
          /\ row.shuffled = pipe_args.shuffled_true
          /\ row.seed \in DOMAIN weight_matrices
  /\ \A k \in DOMAIN current_z_list : \A i \in DOMAIN current_z_list[k] :
       DirectionFits(current_z_list[k][i])

\* a written results file with rows of both seeds, of a one-sided and of a
\* two-sided distribution, and of the second feature
C6_Witness ==
  /\ out_file.written
  /\ \E i \in DOMAIN out_file.rows : \E j \in DOMAIN out_file.rows :
       /\ out_file.rows[i].direction = "both"
       /\ out_file.rows[i].seed = 1
       /\ out_file.rows[j].direction = "negative"
       /\ out_file.rows[j].seed = 2
       /\ out_file.rows[j].current_z = 1

(***************************************************************************)
(* The gene-name cells of 1B.download-hematopoietic-data.py (lines 63-113).*)
(* The gene table is a sequence of rows [entrez_gene_id, symbol,           *)
(* gene_type, synonyms]; synonyms is the list the '|'-separated field      *)
(* splits into, or NoSynonyms for a missing field.  A dictionary is a      *)
(* function from its keys.                                                 *)
(***************************************************************************)
NoSynonyms == <<"nan">>

\* dict(zip(keys, values)) over the rows of a table: the last row of a
\* repeated key wins
DictZip(df, key, value) ==
  LET keys == {df[i][key] : i \in DOMAIN df}
      last(k) == CHOOSE i \in DOMAIN df :
                   /\ df[i][key] = k
                   /\ \A j \in DOMAIN df : df[j][key] = k => j <= i
  IN [k \in keys |-> df[last(k)][value]]

\* line 73
SymbolToEntrez(df) == DictZip(df, "symbol", "entrez_gene_id")

\* line 81: dropna(subset=['synonyms'])
HasSynonyms(row) == row.synonyms # NoSynonyms

\* lines 84-92: one row per gene and synonym, in the order of the genes and
\* of each gene's list
RECURSIVE JoinSynonyms(_)
JoinSynonyms(df) ==
  IF df = <<>> THEN <<>>
  ELSE LET g == Head(df)
       IN [i \in DOMAIN g.synonyms |->
             [entrez_gene_id |-> g.entrez_gene_id, symbol |-> g.symbol,
              all_synonyms |-> g.synonyms[i]]]
          \o JoinSynonyms(Tail(df))

\* line 99: drop_duplicates(['all_synonyms'], keep=False)
DropDuplicatedSynonyms(df) ==
  LET Once(row) == Cardinality({i \in DOMAIN df :
                                  df[i].all_synonyms = row.all_synonyms}) = 1
  IN SelectSeq(df, Once)

\* line 102: query('symbol not in all_synonyms') keeps the rows whose symbol
\* is not a value of the frame's all_synonyms column
QuerySymbolNotInSynonyms(df) ==
  LET NotASynonym(row) == row.symbol \notin {df[i].all_synonyms : i \in DOMAIN df}
  IN SelectSeq(df, NotASynonym)

\* line 110
SynonymToEntrez(df) == DictZip(df, "all_synonyms", "entrez_gene_id")

\* line 113: dict.update
Update(d, e) ==
  [k \in DOMAIN d \cup DOMAIN e |-> IF k \in DOMAIN e THEN e[k] ELSE d[k]]

\* lines 63-74 (cell In[6])
LoadGenes ==
  /\ nb_pc = "start"
  /\ gene_df' = SelectSeq(genes_tsv, IsProteinCoding)
  /\ symbol_to_entrez' = SymbolToEntrez(SelectSeq(genes_tsv, IsProteinCoding))
  /\ nb_pc' = "loaded"
  /\ UNCHANGED <<genes_tsv, gene_with_syn_df, synonym_to_entrez>>
  /\ UNCHANGED <<oraVars, lmVars, trVars, pipeVars, gseaVars>>

\* lines 80-103 (cell In[7])
BuildSynonyms ==
  /\ nb_pc = "loaded"
  /\ gene_df' = SelectSeq(gene_df, HasSynonyms)
  /\ gene_with_syn_df' =
       QuerySymbolNotInSynonyms(
         DropDuplicatedSynonyms(JoinSynonyms(SelectSeq(gene_df, HasSynonyms))))
  /\ nb_pc' = "joined"
  /\ UNCHANGED <<genes_tsv, symbol_to_entrez, synonym_to_entrez>>
  /\ UNCHANGED <<oraVars, lmVars, trVars, pipeVars, gseaVars>>

\* lines 109-113 (cell In[8])
MergeSynonyms ==
  /\ nb_pc = "joined"
  /\ synonym_to_entrez' = SynonymToEntrez(gene_with_syn_df)
  /\ symbol_to_entrez' = Update(symbol_to_entrez, SynonymToEntrez(gene_with_syn_df))
  /\ nb_pc' = "merged"
  /\ UNCHANGED <<genes_tsv, gene_df, gene_with_syn_df>>
  /\ UNCHANGED <<oraVars, lmVars, trVars, pipeVars, gseaVars>>

(***************************************************************************)
(* SpecSynonyms: the three cells on a table of two genes, each with a      *)
(* symbol, a gene type and up to MaxSynonyms synonyms.                     *)
(***************************************************************************)
GeneSymbols == {"A", "B"}
SynonymNames == {"A", "B", "X"}
GeneTypes == {"protein-coding", "ncRNA"}
SynonymLists == (SeqsUpTo(SynonymNames, MaxSynonyms) \ {<<>>}) \cup {NoSynonyms}

GeneRow(id, symbol, type, syns) ==
  [entrez_gene_id |-> id, symbol |-> symbol, gene_type |-> type, synonyms |-> syns]

InitSynonyms ==
  /\ OraIdle
  /\ LmIdle
  /\ TrIdle
  /\ PipeIdle
  /\ GseaIdle
  /\ \E s1 \in GeneSymbols : \E s2 \in GeneSymbols :
       \E t1 \in GeneTypes : \E t2 \in GeneTypes :
         \E y1 \in SynonymLists : \E y2 \in SynonymLists :
           genes_tsv = <<GeneRow(1, s1, t1, y1), GeneRow(2, s2, t2, y2)>>
  /\ nb_pc = "start"
  /\ gene_df = <<>>
  /\ symbol_to_entrez = <<>>
  /\ gene_with_syn_df = <<>>
  /\ synonym_to_entrez = <<>>

NextSynonyms == LoadGenes \/ BuildSynonyms \/ MergeSynonyms

SpecSynonyms == InitSynonyms /\ [][NextSynonyms]_vars

\* the genes that list the synonym k, and the primary symbols
GenesListing(k) ==
  {genes_tsv[i].entrez_gene_id :
     i \in {j \in DOMAIN genes_tsv : /\ IsProteinCoding(genes_tsv[j])
                                      /\ HasSynonyms(genes_tsv[j])
                                      /\ k \in Range(genes_tsv[j].synonyms)}}
PrimarySymbols ==
  {genes_tsv[i].symbol : i \in {j \in DOMAIN genes_tsv : IsProteinCoding(genes_tsv[j])}}
PrimaryMap == SymbolToEntrez(SelectSeq(genes_tsv, IsProteinCoding))

\* C11: a synonym is kept only if it is not listed for more than one gene
\* and does not equal an existing primary symbol; so the synonym map has no
\* key that appeared for two different genes, and merging it never changes
\* the id a primary symbol maps to.
C11_SynonymsNeverShadow ==
  nb_pc = "merged" =>
    /\ \A k \in DOMAIN synonym_to_entrez :
         /\ Cardinality(GenesListing(k)) <= 1
         /\ k \notin PrimarySymbols
    /\ \A s \in PrimarySymbols : symbol_to_entrez[s] = PrimaryMap[s]

(***************************************************************************)
(* SpecModel: one constructed latentModel on a matrix of two genes and two *)
(* features, on which the distribution methods (latent.py 111-164) are     *)
(* called in any order, and whose row index is replaced by its translation *)
(* as in Step 3 of run_gsea_pipeline_command (latent.py 447-453).          *)
(***************************************************************************)
ModelStdDevs == {<<5, 2>>, <<0, 1>>}

InitModel ==
  /\ OraIdle
  /\ SynIdle
  /\ PipeIdle
  /\ GseaIdle
  /\ file = EmptyFrame
  /\ lm_pc = "ready"
  /\ \E c1 \in GseaColumns : \E c2 \in GseaColumns :
       w_df = ReadTable(GseaFile(<<<<"p", "0">>, <<"p", "1">>>>, c1, c2))
  /\ z_dim = 2
  /\ algorithm_name = NoneStr
  /\ DictUnset
  /\ DistUnset
  /\ remote = [h \in Hashes |-> IF h = DefaultHash THEN GseaDictionary ELSE OtherDictionary]
  /\ dict_loads = <<>>
  /\ tr_args = NoArgs
  /\ tr_ret = NoReturn
  /\ tr_origin = <<>>
  /\ tr_history = <<>>

CallHighWeightGenes ==
  /\ \E std_dev \in ModelStdDevs : \E long_format \in BOOLEAN :
       get_high_weight_genes(std_dev, long_format)
  /\ UNCHANGED <<file, lm_pc, w_df, z_dim, algorithm_name,
                 is_gene_dictionary_loaded, gene_dictionary_df,
                 pos_w_df, neg_w_df, sqr_w_df>>
  /\ UNCHANGED <<oraVars, synVars, trVars, pipeVars, gseaVars>>

CallSplitPosNeg ==
  /\ \E long_format \in BOOLEAN : split_pos_neg_genes(long_format)
  /\ UNCHANGED <<file, lm_pc, w_df, z_dim, algorithm_name,
                 is_gene_dictionary_loaded, gene_dictionary_df,
                 pos_high_w_df, neg_high_w_df, high_weight_std_cutoff, sqr_w_df>>
  /\ UNCHANGED <<oraVars, synVars, trVars, pipeVars, gseaVars>>

CallSquared ==
  /\ get_squared_distribution
  /\ UNCHANGED <<file, lm_pc, w_df, z_dim, algorithm_name,
                 is_gene_dictionary_loaded, gene_dictionary_df,
                 pos_high_w_df, neg_high_w_df, high_weight_std_cutoff,
                 pos_w_df, neg_w_df>>
  /\ UNCHANGED <<oraVars, synVars, trVars, pipeVars, gseaVars>>

\* lm.w_df.index = lm.translate_gene_ids(lm.w_df.index, 'entrez_gene_id', 'symbol')
AssignTranslatedIndex ==
  /\ lm_pc = "ready"
  /\ translate_gene_ids(w_df.index, "entrez_gene_id", "symbol", DefaultHash)
  /\ w_df' = [w_df EXCEPT !.index = tr_ret'.value]
  /\ UNCHANGED <<file, lm_pc, z_dim, algorithm_name>>
  /\ UNCHANGED <<remote, tr_origin, tr_history>>
  /\ UNCHANGED <<distVars, oraVars, synVars, pipeVars, gseaVars>>

NextModel ==
  \/ CallHighWeightGenes
  \/ CallSplitPosNeg
  \/ CallSquared
  \/ AssignTranslatedIndex

SpecModel == InitModel /\ [][NextModel]_vars

\* a stored distribution is what its method computes from the weight
\* matrix, in wide or in long format
Reflects(stored, computed) == stored = computed \/ stored = LongFrame(computed)

\* C13: after any sequence of operations each derived distribution the
\* model holds (squared, positive/negative, high-positive/high-negative) is
\* the one computed from the current weight matrix; a change of the matrix
\* (here, of its row index) is followed into the distributions.
C13_DistributionsReflectWeights ==
  /\ "sqr_w_df" \in attrs => sqr_w_df = Squared(w_df)
  /\ "pos_w_df" \in attrs =>
       /\ Reflects(pos_w_df, PositiveOnly(w_df))
       /\ Reflects(neg_w_df, NegativeOnly(w_df))
  /\ "pos_high_w_df" \in attrs =>
       /\ Reflects(pos_high_w_df, HighPositive(w_df, high_weight_std_cutoff))
       /\ Reflects(neg_high_w_df, HighNegative(w_df, high_weight_std_cutoff))

(***************************************************************************)
(* Further properties of run_overrepresentation (SpecORA) and of           *)
(* get_high_weight_genes (SpecHW).                                         *)
(***************************************************************************)
\* C14: for every candidate list, background list and gene set, gene sets
\* with members outside the background universe included, all four cells of
\* every contingency table handed to the exact test are at least 1.
C14_CellsAtLeastOne ==
  \A k \in DOMAIN fisher_calls :
    \A i \in 1..2 : \A j \in 1..2 : fisher_calls[k][i][j] >= 1

\* C15: for every weight matrix and every non-negative multiplier no
\* (gene, feature) cell is flagged both high_positive and high_negative,
\* columns of equal values (standard deviation 0) included.
C15_NeverBothFlags ==
  "pos_high_w_df" \in attrs =>
    \A c \in DOMAIN w_df.columns : \A r \in DOMAIN w_df.index :
      ~(HighFlag(pos_high_w_df, r, c) /\ HighFlag(neg_high_w_df, r, c))

\* C16: a call of run_overrepresentation leaves its arguments as they were:
\* background_genes holds the same elements, gene_list and gene_set_dict are
\* the same lists.
C16_ArgumentsUnchanged ==
  [][/\ Range(background_genes') = Range(background_genes)
     /\ gene_list' = gene_list
     /\ gene_set_dict' = gene_set_dict]_vars

====
